---- MODULE Spec2Model ----
(***************************************************************************)
(* Model of the UTXO merger loop of src/src/utxo_merger.rs (fn main).      *)
(* One sequential process: for every configured coin it queries the block  *)
(* count, lists the unspents of every keypair, filters them, assembles one *)
(* transaction, signs every input and broadcasts; then it sleeps.          *)
(***************************************************************************)
EXTENDS Integers, Sequences, FiniteSets, TLC

(* ---- bounds of the model ---- *)
\* longest list one scripthash_list_unspent call returns
MaxUnspents == 3
\* u64 arithmetic is modelled modulo 2^WordBits
WordBits == 24

(* ---- program constants ---- *)
\* utxo_merger.rs:130  current_block - tx_height > 100
MaturityDepth == 100
\* utxo_merger.rs:136  unspents_with_priv.len() < 4
MinUnspents == 4
\* utxo_merger.rs:149  cur + input.amount - 1000
FeePerInput == 1000
\* chain::constants::SEQUENCE_FINAL (0xffffffff)
SEQUENCE_FINAL == "ffffffff"

RECURSIVE Pow2(_)
Pow2(n) == IF n = 0 THEN 1 ELSE 2 * Pow2(n - 1)

Modulus == Pow2(WordBits)

(* ---- inputs the environment can supply ---- *)
\* Option<u64>: <<>> is None, <<h>> is Some(h)
None == <<>>
Some(h) == <<h>>
\* (value, height) of the outputs a listing can return: mature and large,
\* mature and small, unconfirmed, and confirmed above the reported height
UnspentKinds == {<<100000, Some(50)>>, <<500, Some(50)>>,
                 <<100000, None>>, <<100000, Some(250)>>}
BlockCounts == {150, 151}
\* conf.seeds after key_pair_from_seed: one keypair per seed, in order
\* the second list names the same seed twice
SeedLists == {<<1, 2>>, <<1, 1>>}
\* conf.coins after activation: (client kind, output_threshold)
ElectrumCoin(t) == [client |-> "Electrum", output_threshold |-> t]
NativeCoin(t) == [client |-> "Native", output_threshold |-> t]
CoinLists == {<<ElectrumCoin(50000), ElectrumCoin(0)>>,
              <<ElectrumCoin(0), NativeCoin(50000)>>}

VARIABLES
    keypairs,           \* Vec of keypairs (line 74-75)
    coins,              \* Vec<(UtxoStandardCoin, u64)> (line 80-96)
    to_address,         \* parsed send_to_address (line 73)
    overflow_checks,    \* build profile: TRUE panics on overflow, FALSE wraps
    pc,                 \* position of main inside the loop
    coin,               \* index of the for loop over coins (line 99)
    key,                \* index of the for loop over keypairs (line 112)
    current_block,      \* line 104
    unspents_with_priv, \* line 111
    unsigned,           \* line 141
    signed_inputs,      \* line 157
    sent,               \* hex handed to send_raw_tx (line 190)
    responses,          \* what each list call of this cycle answered
    entered,            \* the coins entered so far in this pass, in order
    cycle               \* history of the current (or just ended) cycle

vars == <<keypairs, coins, to_address, overflow_checks, pc, coin, key,
          current_block, unspents_with_priv, unsigned, signed_inputs, sent,
          responses, entered, cycle>>

conf == <<keypairs, coins, to_address, overflow_checks>>

(* ---- values of the model ---- *)
NumCoins == Len(coins)
NumKeys == Len(keypairs)

\* coin.as_ref().transaction_preimage(): no inputs, no outputs yet
transaction_preimage == [inputs |-> <<>>, outputs |-> <<>>]

\* nothing has happened yet in the cycle of coin c
NewCycle(c) == [coin |-> c, outcome |-> "running", height_calls |-> 0,
                lists |-> <<>>, list_ok |-> <<>>, list_heights |-> <<>>,
                kept |-> -1,
                assembled |-> 0, signings |-> 0, broadcasts |-> 0]

\* H256::reversed(): the bytes of the hash in opposite order
RECURSIVE reversed(_)
reversed(h) == IF h = <<>> THEN <<>> ELSE Append(reversed(Tail(h)), Head(h))

\* what one scripthash_list_unspent call can answer for the script of kp:
\* outputs of the ledger of the current coin locked to kp, numbered by
\* position, of any value and height
ElectrumUnspent(kp, pos, v, h) ==
    [tx_hash |-> <<kp, coin>>, tx_pos |-> pos, value |-> v, height |-> h]

ListUnspentResults(kp) ==
    UNION { { [j \in 1..n |-> ElectrumUnspent(kp, j, f[j][1], f[j][2])] :
                f \in [1..n -> UnspentKinds] } : n \in 0..MaxUnspents }

unsigned_input_from_electrum(el) ==
    [previous_output |-> [hash |-> reversed(el.tx_hash), index |-> el.tx_pos],
     sequence |-> SEQUENCE_FINAL,
     amount |-> el.value]

(* ---- u64 arithmetic ---- *)
\* a - b overflows when b > a; a + b overflows when the sum leaves the width
SubOverflows(a, b) == b > a
AddOverflows(a, b) == a + b >= Modulus
WrappingSub(a, b) == (a - b + Modulus) % Modulus
WrappingAdd(a, b) == (a + b) % Modulus

(* ---- the retain closure, lines 127-134 ---- *)
value_match(unspent, output_threshold) == unspent.value >= output_threshold

is_mature(unspent, cur) ==
    IF unspent.height = None
    THEN FALSE
    ELSE WrappingSub(cur, unspent.height[1]) > MaturityDepth

\* with overflow checks the subtraction of line 130 panics when it overflows
IsMaturePanics(unspent, cur) ==
    /\ overflow_checks
    /\ unspent.height # None
    /\ SubOverflows(cur, unspent.height[1])

RetainKeeps(pair, output_threshold, cur) ==
    value_match(pair.unspent, output_threshold) /\ is_mature(pair.unspent, cur)

(* ---- the fee fold, line 149 ---- *)
\* the accumulator after the first n inputs
RECURSIVE FoldAmount(_, _)
FoldAmount(inputs, n) ==
    IF n = 0 THEN 0
    ELSE WrappingSub(WrappingAdd(FoldAmount(inputs, n - 1), inputs[n].amount),
                     FeePerInput)

FoldStepOverflows(inputs, n) ==
    \/ AddOverflows(FoldAmount(inputs, n - 1), inputs[n].amount)
    \/ SubOverflows(FoldAmount(inputs, n - 1) + inputs[n].amount, FeePerInput)

FoldPanics(inputs) ==
    overflow_checks /\ \E n \in 1..Len(inputs) : FoldStepOverflows(inputs, n)

(* ---- signing, lines 157-170 ---- *)
\* p2pk_spend(&unsigned, i, key_pair, ..): input i of the transaction with a
\* script_sig made by key_pair over the transaction as it is at the call
p2pk_spend(tx, i, key_pair) ==
    [previous_output |-> tx.inputs[i].previous_output,
     sequence |-> tx.inputs[i].sequence,
     script_sig |-> [signer |-> key_pair, input_index |-> i,
                     n_inputs |-> Len(tx.inputs), outputs |-> tx.outputs]]

(* ---- initial state: the loop is about to start, line 98 ---- *)
Init ==
    /\ keypairs \in SeedLists
    /\ coins \in CoinLists
    /\ to_address = "send_to_address"
    /\ overflow_checks \in BOOLEAN
    /\ pc = "coin_start"
    /\ coin = 1
    /\ key = 0
    /\ current_block = 0
    /\ unspents_with_priv = <<>>
    /\ responses = <<>>
    /\ unsigned = transaction_preimage
    /\ signed_inputs = <<>>
    /\ sent = <<>>
    /\ entered = <<>>
    /\ cycle = [NewCycle(0) EXCEPT !.outcome = "none"]

\* the collected list outlives the iteration
DropLocals_KeepsUnspents ==
    /\ key' = 0
    /\ current_block' = 0
    /\ unspents_with_priv' = unspents_with_priv
    /\ responses' = <<>>
    /\ unsigned' = transaction_preimage
    /\ signed_inputs' = <<>>
    /\ sent' = <<>>

\* the locals of one iteration of the for loop are dropped at its end
DropLocals ==
    /\ key' = 0
    /\ current_block' = 0
    /\ unspents_with_priv' = <<>>
    /\ responses' = <<>>
    /\ unsigned' = transaction_preimage
    /\ signed_inputs' = <<>>
    /\ sent' = <<>>

\* `continue` or the end of the for body: next coin, or leave the for loop
NextCoinLog(outcome, log) ==
    /\ cycle' = [log EXCEPT !.outcome = outcome]
    /\ DropLocals
    /\ IF coin < NumCoins
       THEN coin' = coin + 1 /\ pc' = "coin_start"
       ELSE coin' = coin /\ pc' = "sleep"
    /\ UNCHANGED <<conf, entered>>

NextCoin(outcome) == NextCoinLog(outcome, cycle)

\* panic!: the process is gone
Panic ==
    /\ pc' = "panicked"
    /\ cycle' = [cycle EXCEPT !.outcome = "panicked"]
    /\ UNCHANGED <<conf, coin, key, current_block, unspents_with_priv,
                   responses, unsigned, signed_inputs, sent, entered>>

(* ---- lines 99-104: enter the coin, pick its client, ask the height ---- *)
IsElectrum(c) == c.client = "Electrum"

CoinStart ==
    /\ pc = "coin_start"
    /\ IsElectrum(coins[coin])
    /\ pc' = "get_block_count"
    /\ entered' = Append(entered, coin)
    /\ cycle' = [NewCycle(coin) EXCEPT !.height_calls = 1]
    /\ UNCHANGED <<conf, coin, key, current_block, unspents_with_priv,
                   responses, unsigned, signed_inputs, sent>>

\* line 102
CoinStartPanic ==
    /\ pc = "coin_start"
    /\ ~ IsElectrum(coins[coin])
    /\ pc' = "panicked"
    /\ entered' = Append(entered, coin)
    /\ cycle' = [NewCycle(coin) EXCEPT !.outcome = "panicked"]
    /\ UNCHANGED <<conf, coin, key, current_block, unspents_with_priv,
                   responses, unsigned, signed_inputs, sent>>

\* the for loop over keypairs: the call for the key after k, or the retain
AfterKey(k) == IF k < NumKeys THEN "list_unspent" ELSE "retain"

(* ---- lines 104-111: get_block_count returns ---- *)
GetBlockCountOk ==
    /\ pc = "get_block_count"
    /\ \E b \in BlockCounts : current_block' = b
    /\ unspents_with_priv' = <<>>
    /\ pc' = AfterKey(0)
    /\ key' = IF NumKeys > 0 THEN 1 ELSE 0
    /\ cycle' = IF NumKeys > 0 THEN [cycle EXCEPT !.lists = <<1>>] ELSE cycle
    /\ UNCHANGED <<conf, coin, responses, unsigned, signed_inputs, sent,
                   entered>>

\* a failed height query leaves the loop over the coins
GetBlockCountErr_Break ==
    /\ pc = "get_block_count"
    /\ cycle' = [cycle EXCEPT !.outcome = "height_err"]
    /\ DropLocals
    /\ pc' = "sleep"
    /\ UNCHANGED <<conf, coin, entered>>

GetBlockCountErr ==
    /\ pc = "get_block_count"
    /\ NextCoin("height_err")

(* ---- lines 112-125: scripthash_list_unspent returns for keypairs[key] ---- *)
\* line 124: every returned unspent is paired with the keypair of the query
Tagged(u, keypair) == [j \in 1..Len(u) |-> [unspent |-> u[j], keypair |-> keypair]]

\* the height of the ledger when the latest call of the cycle was answered
LastHeight ==
    IF cycle.list_heights = <<>> THEN current_block
    ELSE cycle.list_heights[Len(cycle.list_heights)]

\* the ledger only grows, and it is at least as high as every output it lists
RECURSIVE HeightAtListing(_, _)
HeightAtListing(u, n) ==
    IF n = 0 THEN LastHeight
    ELSE LET rest == HeightAtListing(u, n - 1) IN
         IF u[n].height # None /\ u[n].height[1] > rest
         THEN u[n].height[1] ELSE rest

\* within a cycle the ledger answers the same script with the same outputs
SameAsBefore(u) ==
    \A k \in 1..Len(responses) :
        keypairs[k] = keypairs[key] /\ responses[k].ok => u = responses[k].unspents

\* the loop goes on with the key after `key`; ok tells whether the call
\* succeeded and h is the height of the ledger at the answer
ToNextKey(ok, h) ==
    /\ pc' = AfterKey(key)
    /\ key' = IF key < NumKeys THEN key + 1 ELSE key
    /\ cycle' = [cycle EXCEPT
                    !.lists = IF key < NumKeys THEN Append(@, key + 1) ELSE @,
                    !.list_ok = Append(@, ok),
                    !.list_heights = Append(@, h)]

ListUnspentOk ==
    /\ pc = "list_unspent"
    /\ \E u \in ListUnspentResults(keypairs[key]) :
         /\ SameAsBefore(u)
         /\ unspents_with_priv' = unspents_with_priv \o Tagged(u, keypairs[key])
         /\ responses' = Append(responses, [ok |-> TRUE, unspents |-> u])
         /\ ToNextKey(TRUE, HeightAtListing(u, Len(u)))
    /\ UNCHANGED <<conf, coin, current_block, unsigned, signed_inputs, sent,
                   entered>>

\* a failed listing ends the loop over the keypairs
ListUnspentErr_Break ==
    /\ pc = "list_unspent"
    /\ responses' = Append(responses, [ok |-> FALSE, unspents |-> <<>>])
    /\ pc' = "retain"
    /\ UNCHANGED <<conf, coin, key, current_block, unspents_with_priv, unsigned,
                   signed_inputs, sent, entered, cycle>>

\* a failed listing is asked again for the same key
ListUnspentErr_Retry ==
    /\ pc = "list_unspent"
    /\ responses' = responses
    /\ cycle' = [cycle EXCEPT !.lists = Append(@, key)]
    /\ UNCHANGED <<conf, pc, coin, key, current_block, unspents_with_priv,
                   unsigned, signed_inputs, sent, entered>>

\* line 119-122: the error is printed and the loop continues with the next key
ListUnspentErr ==
    /\ pc = "list_unspent"
    /\ responses' = Append(responses, [ok |-> FALSE, unspents |-> <<>>])
    /\ ToNextKey(FALSE, LastHeight)
    /\ UNCHANGED <<conf, coin, current_block, unspents_with_priv, unsigned,
                   signed_inputs, sent, entered>>

(* ---- lines 127-134: retain ---- *)
\* the kept pairs come out in the opposite order
Retained_Reversed(list, output_threshold, cur) ==
    reversed(SelectSeq(list, LAMBDA p : RetainKeeps(p, output_threshold, cur)))

Retained(list, output_threshold, cur) ==
    SelectSeq(list, LAMBDA p : RetainKeeps(p, output_threshold, cur))

RetainPanics ==
    \E i \in 1..Len(unspents_with_priv) :
        IsMaturePanics(unspents_with_priv[i].unspent, current_block)

Retain ==
    /\ pc = "retain"
    /\ ~ RetainPanics
    /\ unspents_with_priv' =
          Retained(unspents_with_priv, coins[coin].output_threshold,
                   current_block)
    /\ responses' = <<>>
    /\ cycle' = [cycle EXCEPT !.kept = Len(unspents_with_priv')]
    /\ pc' = "check_len"
    /\ UNCHANGED <<conf, coin, key, current_block, unsigned, signed_inputs,
                   sent, entered>>

RetainPanic ==
    /\ pc = "retain"
    /\ RetainPanics
    /\ Panic

(* ---- lines 136-139: too few unspents, skip the coin ---- *)
\* the length test off by one
TooFew_OffByOne(n) == n < MinUnspents - 1

TooFew(n) == n < MinUnspents

Skip ==
    /\ pc = "check_len"
    /\ TooFew(Len(unspents_with_priv))
    /\ NextCoin("skipped")

(* ---- lines 141-155: the unsigned transaction ---- *)
AssembledInputs(list) ==
    [i \in 1..Len(list) |-> unsigned_input_from_electrum(list[i].unspent)]

\* the output pays the first keypair instead of the configured address
script_pubkey_ToOwnKey == <<"p2pk", keypairs[1]>>

\* line 147
script_pubkey == <<"p2pkh", to_address>>

Assemble ==
    /\ pc = "check_len"
    /\ ~ TooFew(Len(unspents_with_priv))
    /\ LET inputs == AssembledInputs(unspents_with_priv) IN
        /\ ~ FoldPanics(inputs)
        /\ unsigned' = [inputs |-> inputs,
                        outputs |-> << [value |-> FoldAmount(inputs, Len(inputs)),
                                        script_pubkey |-> script_pubkey] >>]
    /\ cycle' = [cycle EXCEPT !.assembled = @ + 1]
    /\ pc' = "sign"
    /\ UNCHANGED <<conf, coin, key, current_block, unspents_with_priv,
                   responses, signed_inputs, sent, entered>>

AssemblePanic ==
    /\ pc = "check_len"
    /\ ~ TooFew(Len(unspents_with_priv))
    /\ FoldPanics(AssembledInputs(unspents_with_priv))
    /\ Panic

(* ---- lines 157-189: sign every input, build the signed transaction ---- *)
\* every input signed with the keypair of the first unspent
SignerOf_First(i) == unspents_with_priv[1].keypair

\* line 165: &unspents_with_priv[i].1
SignerOf(i) == unspents_with_priv[i].keypair

\* lines 185-186: the unsigned transaction with its inputs replaced
SignedTx(tx, inputs) == [inputs |-> inputs, outputs |-> tx.outputs]

\* the inputs are signed before line 155 has set the output
SignOk_BeforeOutputs ==
    /\ pc = "sign"
    /\ signed_inputs' = [i \in 1..Len(unsigned.inputs) |->
                            p2pk_spend([unsigned EXCEPT !.outputs = <<>>], i,
                                       SignerOf(i))]
    /\ sent' = << SignedTx(unsigned, signed_inputs') >>
    /\ cycle' = [cycle EXCEPT !.signings = @ + 1, !.broadcasts = @ + 1]
    /\ pc' = "send_raw_tx"
    /\ UNCHANGED <<conf, coin, key, current_block, unspents_with_priv,
                   responses, unsigned, entered>>

SignOk ==
    /\ pc = "sign"
    /\ signed_inputs' = [i \in 1..Len(unsigned.inputs) |->
                            p2pk_spend(unsigned, i, SignerOf(i))]
    /\ sent' = << SignedTx(unsigned, signed_inputs') >>
    /\ cycle' = [cycle EXCEPT !.signings = @ + 1, !.broadcasts = @ + 1]
    /\ pc' = "send_raw_tx"
    /\ UNCHANGED <<conf, coin, key, current_block, unspents_with_priv,
                   responses, unsigned, entered>>

\* a signing error broadcasts the inputs signed before it
SignErr_PartialBroadcast ==
    /\ pc = "sign"
    /\ \E i \in 1..Len(unsigned.inputs) :
         signed_inputs' = [j \in 1..(i - 1) |->
                              p2pk_spend(unsigned, j, SignerOf(j))]
    /\ sent' = << SignedTx(unsigned, signed_inputs') >>
    /\ cycle' = [cycle EXCEPT !.outcome = "sign_err", !.signings = @ + 1,
                              !.broadcasts = @ + 1]
    /\ pc' = "send_raw_tx"
    /\ UNCHANGED <<conf, coin, key, current_block, unspents_with_priv,
                   responses, unsigned, entered>>

\* lines 172-183: p2pk_spend failed for some input, collect() is the error
SignErr ==
    /\ pc = "sign"
    /\ \E i \in 1..Len(unsigned.inputs) : TRUE
    /\ NextCoinLog("sign_err", [cycle EXCEPT !.signings = @ + 1])

(* ---- lines 190-198: send_raw_tx returns ---- *)
SendRawTxOk ==
    /\ pc = "send_raw_tx"
    /\ NextCoin("sent")

SendRawTxErr ==
    /\ pc = "send_raw_tx"
    /\ NextCoin("send_err")

\* the next pass starts after the first coin
Sleep_SkipsFirst ==
    /\ pc = "sleep"
    /\ pc' = "coin_start"
    /\ coin' = NumCoins
    /\ entered' = <<>>
    /\ cycle' = [NewCycle(0) EXCEPT !.outcome = "none"]
    /\ UNCHANGED <<conf, key, current_block, unspents_with_priv, responses,
                   unsigned, signed_inputs, sent>>

(* ---- lines 200-201: the sleep ends, the next pass begins ---- *)
Sleep ==
    /\ pc = "sleep"
    /\ pc' = "coin_start"
    /\ coin' = 1
    /\ entered' = <<>>
    /\ cycle' = [NewCycle(0) EXCEPT !.outcome = "none"]
    /\ UNCHANGED <<conf, key, current_block, unspents_with_priv, responses,
                   unsigned, signed_inputs, sent>>

Next ==
    \/ CoinStart
    \/ CoinStartPanic
    \/ GetBlockCountOk
    \/ GetBlockCountErr
    \/ ListUnspentOk
    \/ ListUnspentErr
    \/ Retain
    \/ RetainPanic
    \/ Skip
    \/ Assemble
    \/ AssemblePanic
    \/ SignOk
    \/ SignErr
    \/ SendRawTxOk
    \/ SendRawTxErr
    \/ Sleep

Spec == Init /\ [][Next]_vars

\* the configurations whose seeds are pairwise distinct
InitDistinctSeeds ==
    /\ Init
    /\ \A i, j \in 1..Len(keypairs) : keypairs[i] = keypairs[j] => i = j

SpecDistinctSeeds == InitDistinctSeeds /\ [][Next]_vars

\* every call returns and every sleep ends: the loop takes its next step
FairSpec == Spec /\ WF_vars(Next)

TypeOK ==
    /\ pc \in {"coin_start", "get_block_count", "list_unspent", "retain",
               "check_len", "sign", "send_raw_tx", "sleep", "panicked"}
    /\ coin \in 1..NumCoins
    /\ key \in 0..NumKeys
    /\ Len(unspents_with_priv) <= NumKeys * MaxUnspents

(***************************************************************************)
(* Properties                                                              *)
(***************************************************************************)

\* the filter as the specification states it, in unbounded integers
SpecKeeps(u, output_threshold, cur) ==
    /\ u.value >= output_threshold
    /\ u.height # None
    /\ cur - u.height[1] > 100

RECURSIVE SumAmounts(_, _)
SumAmounts(inputs, n) ==
    IF n = 0 THEN 0 ELSE SumAmounts(inputs, n - 1) + inputs[n].amount

\* the cycle of cycle.coin has ended and the loop is at the coin after it,
\* or at the sleep when it was the last one
MovedOn ==
    /\ cycle.coin < NumCoins => pc = "coin_start" /\ coin = cycle.coin + 1
    /\ cycle.coin = NumCoins => pc = "sleep"
    /\ unspents_with_priv = <<>> /\ unsigned = transaction_preimage
    /\ signed_inputs = <<>> /\ sent = <<>>

\* C1: the filter step completes and keeps an output iff value >= threshold,
\* its height is present and current height - height > 100; in particular an
\* output confirmed above the current height is dropped
C1_FilterKeepsIff ==
    [][pc = "retain" =>
         /\ pc' = "check_len"
         /\ unspents_with_priv' =
              SelectSeq(unspents_with_priv,
                        LAMBDA p : SpecKeeps(p.unspent,
                                             coins[coin].output_threshold,
                                             current_block))]_vars

\* C2: when fewer than 4 outputs remain after the filter, nothing is
\* assembled, signed or broadcast for the coin and the loop moves on to the
\* next coin; every assembled transaction has at least 4 inputs
C2_FewerThanFourSkips ==
    /\ cycle.kept \in 0..3 =>
         /\ cycle.assembled = 0 /\ cycle.signings = 0 /\ cycle.broadcasts = 0
         /\ unsigned = transaction_preimage
         /\ signed_inputs = <<>> /\ sent = <<>>
         /\ \/ cycle.outcome = "running" /\ pc = "check_len"
            \/ cycle.outcome = "skipped" /\ MovedOn
    /\ cycle.assembled > 0 => cycle.kept >= 4
    /\ unsigned # transaction_preimage => Len(unsigned.inputs) >= 4
    /\ sent # <<>> => Len(sent[1].inputs) >= 4

C2_Witness == cycle.outcome = "skipped" /\ cycle.kept = 3 /\ cycle.coin = 1

\* C3: the output of every assembled transaction is worth the sum of the
\* input values minus 1000 per input, exactly
C3_OutputIsSumMinusFees ==
    pc \in {"sign", "send_raw_tx"} =>
        /\ Len(unsigned.outputs) = 1
        /\ unsigned.outputs[1].value =
              SumAmounts(unsigned.inputs, Len(unsigned.inputs))
                 - 1000 * Len(unsigned.inputs)

RECURSIVE C5_Collected(_)
C5_Collected(k) ==
    IF k = 0 THEN <<>>
    ELSE C5_Collected(k - 1) \o
         (IF responses[k].ok
          THEN [j \in 1..Len(responses[k].unspents) |->
                   [unspent |-> responses[k].unspents[j],
                    keypair |-> keypairs[k]]]
          ELSE <<>>)

C6_SignFailureNoBroadcast ==
    /\ cycle.outcome = "sign_err" =>
         /\ cycle.broadcasts = 0
         /\ cycle.assembled = 1
         /\ MovedOn
    /\ sent # <<>> =>
         /\ pc = "send_raw_tx"
         /\ Len(sent[1].inputs) = Len(unsigned.inputs)
         /\ \A i \in 1..Len(sent[1].inputs) :
               sent[1].inputs[i].script_sig.input_index = i
    /\ cycle.broadcasts <= 1
    \* a coin is entered at most once in a pass
    /\ \A i, j \in 1..Len(entered) : entered[i] = entered[j] => i = j

C6_Witness ==
    /\ cycle.outcome = "sign_err"
    /\ cycle.coin = 1
    /\ pc = "coin_start"
    /\ coin = 2

\* C7: a failed height query is followed by no listing, signing or broadcast
\* for the coin; after it and after a failed broadcast the loop is at the next
\* coin, or at the sleep after the last coin, with the locals of the cycle gone
C7_LedgerFailureIsolated ==
    /\ cycle.outcome = "height_err" =>
         /\ cycle.height_calls = 1
         /\ cycle.lists = <<>> /\ cycle.kept = -1
         /\ cycle.assembled = 0 /\ cycle.signings = 0 /\ cycle.broadcasts = 0
    /\ cycle.outcome \in {"height_err", "send_err"} => MovedOn
    /\ pc = "coin_start" =>
         /\ key = 0 /\ current_block = 0 /\ responses = <<>>
         /\ unspents_with_priv = <<>> /\ unsigned = transaction_preimage
         /\ signed_inputs = <<>> /\ sent = <<>>

C7_Witness ==
    /\ cycle.outcome = "height_err"
    /\ cycle.coin = 1
    /\ pc = "coin_start"
    /\ coin = 2

\* C8: once the loop has started the process never terminates, whatever the
\* clients answer and whatever client is configured
C8_NeverTerminates == pc # "panicked"

\* C9: in a pass the coins are entered one at a time, each once, in
\* configured order, a cycle starts only when the one before it has ended,
\* the sleep comes after the last coin only, and a pass starts at the first
C9_SequentialOrder ==
    /\ entered = [i \in 1..Len(entered) |-> i]
    /\ pc = "coin_start" => Len(entered) = coin - 1
    /\ pc = "coin_start" /\ coin > 1 =>
         /\ cycle.coin = coin - 1
         /\ cycle.outcome \in {"height_err", "skipped", "sign_err",
                               "send_err", "sent"}
    /\ pc \in {"get_block_count", "list_unspent", "retain", "check_len",
               "sign", "send_raw_tx"} =>
         /\ Len(entered) = coin
         /\ cycle.coin = coin /\ cycle.outcome = "running"
    /\ pc = "sleep" =>
         /\ entered = [i \in 1..NumCoins |-> i]
         /\ cycle.coin = NumCoins
         /\ cycle.outcome \in {"height_err", "skipped", "sign_err",
                               "send_err", "sent"}

\* the sleep after a pass whose first coin was entered and whose last failed
C9_Witness ==
    /\ pc = "sleep"
    /\ entered = <<1, 2>>
    /\ cycle.outcome = "height_err"

\* C10: when every call returns and every sleep ends, the sleep is reached
\* infinitely often and the first coin is entered infinitely often
C10_LoopsForever ==
    /\ []<>(pc = "sleep")
    /\ []<>(pc = "get_block_count" /\ coin = 1)

\* the calls of a finished cycle, or of one past its listings, cover every key
ListingsOver ==
    \/ pc \in {"retain", "check_len", "sign", "send_raw_tx"}
    \/ cycle.outcome \in {"skipped", "sign_err", "send_err", "sent"}

\* C11: in one cycle the height query is made at most once, the listing at
\* most once per key, in key order, and once for every key when the height
\* query succeeded, and the broadcast at most once; a coin has one cycle in
\* a pass, so no failed call is repeated before the next pass
C11_NoRepeatedCalls ==
    /\ cycle.height_calls <= 1
    /\ Len(cycle.lists) <= NumKeys
    /\ cycle.lists = [k \in 1..Len(cycle.lists) |-> k]
    /\ Len(cycle.list_ok) <= Len(cycle.lists)
    /\ ListingsOver =>
         /\ cycle.lists = [k \in 1..NumKeys |-> k]
         /\ Len(cycle.list_ok) = NumKeys
    /\ cycle.broadcasts <= 1
    /\ cycle.outcome \in {"send_err", "sent"} => cycle.broadcasts = 1
    /\ Len(entered) <= NumCoins
    /\ \A i, j \in 1..Len(entered) : i # j => entered[i] # entered[j]

\* a finished cycle whose second listing failed: it was asked once
C11_Witness ==
    /\ cycle.outcome = "skipped"
    /\ cycle.list_ok = <<TRUE, FALSE>>
    /\ cycle.lists = <<1, 2>>
    /\ cycle.height_calls = 1
    /\ cycle.kept = 3
    /\ cycle.broadcasts = 0

\* C12: a transaction is handed to the broadcast only when its inputs are
\* worth more than 1000 per input, and its output is that positive difference
C12_NoNonPositiveBroadcast ==
    sent # <<>> =>
        LET n == Len(unsigned.inputs)
            total == SumAmounts(unsigned.inputs, n)
        IN /\ total > 1000 * n
           /\ sent[1].outputs[1].value > 0
           /\ sent[1].outputs[1].value <= total

\* C13: every input of a broadcast transaction spends an output worth at
\* least the threshold and more than 100 blocks deep at the height the ledger
\* had when the output was listed
C13_BroadcastInputsMature ==
    sent # <<>> =>
        \A i \in 1..Len(unspents_with_priv) :
            LET e == unspents_with_priv[i] IN
            /\ e.unspent.value >= coins[coin].output_threshold
            /\ e.unspent.height # None
            /\ \A k \in 1..NumKeys :
                  keypairs[k] = e.keypair /\ cycle.list_ok[k] =>
                     cycle.list_heights[k] - e.unspent.height[1] > 100

\* C14: the collected list is the answers in key order, the filter removes
\* outputs without reordering the ones it keeps, and input i carries the
\* previous output and the value of the i-th kept output
C14_OrderPreserved ==
    [][/\ pc' = "retain" =>
            unspents_with_priv' = (C5_Collected(NumKeys))'
       /\ pc = "retain" /\ pc' = "check_len" =>
            unspents_with_priv' =
               SelectSeq(unspents_with_priv,
                         LAMBDA e : \E i \in 1..Len(unspents_with_priv') :
                                        unspents_with_priv'[i] = e)
       /\ pc' \in {"sign", "send_raw_tx"} =>
            /\ unspents_with_priv' = unspents_with_priv
            /\ Len(unsigned'.inputs) = Len(unspents_with_priv')
            /\ \A i \in 1..Len(unsigned'.inputs) :
                 LET el == unspents_with_priv'[i].unspent IN
                 /\ unsigned'.inputs[i].previous_output =
                       [hash |-> reversed(el.tx_hash), index |-> el.tx_pos]
                 /\ reversed(unsigned'.inputs[i].previous_output.hash) = el.tx_hash
                 /\ unsigned'.inputs[i].amount = el.value
                 /\ pc' = "send_raw_tx" =>
                       sent'[1].inputs[i].previous_output =
                          unsigned'.inputs[i].previous_output]_vars

\* four inputs, the second listed output of the first key was filtered out
C14_Witness ==
    /\ pc = "sign"
    /\ Len(unsigned.inputs) = 4
    /\ unsigned.inputs[1].previous_output.index = 1
    /\ unsigned.inputs[2].previous_output.index = 3
    /\ unspents_with_priv[2].keypair = unspents_with_priv[1].keypair
    /\ unspents_with_priv[3].keypair # unspents_with_priv[1].keypair

\* C15: the collected list is empty when a cycle starts, and every output in
\* it, and every input made from it, was answered by a listing of this cycle
\* to the client of the current coin
C15_FreshPerCycle ==
    /\ pc \in {"coin_start", "get_block_count", "sleep"} =>
         /\ unspents_with_priv = <<>> /\ responses = <<>>
         /\ unsigned = transaction_preimage /\ sent = <<>>
    /\ \A i \in 1..Len(unspents_with_priv) :
         unspents_with_priv[i].unspent.tx_hash[2] = coin
    /\ pc \in {"list_unspent", "retain"} =>
         \A i \in 1..Len(unspents_with_priv) :
            \E k \in 1..Len(responses) :
               /\ responses[k].ok
               /\ \E j \in 1..Len(responses[k].unspents) :
                     responses[k].unspents[j] = unspents_with_priv[i].unspent
    /\ pc \in {"sign", "send_raw_tx"} =>
         /\ cycle.coin = coin
         /\ \A i \in 1..Len(unsigned.inputs) :
               reversed(unsigned.inputs[i].previous_output.hash)[2] = coin
    /\ sent # <<>> =>
         \A i \in 1..Len(sent[1].inputs) :
            reversed(sent[1].inputs[i].previous_output.hash)[2] = coin

\* a transaction of the second coin, after the cycle of the first
C15_Witness ==
    /\ pc = "sign"
    /\ coin = 2
    /\ entered = <<1, 2>>
    /\ Len(unsigned.inputs) >= 4

\* C16: no step changes the keypairs, the address, the coins or their
\* thresholds, and every assembled or broadcast transaction has one output,
\* which pays the script of the configured address
C16_OneOutputToAddress ==
    [][/\ keypairs' = keypairs /\ coins' = coins /\ to_address' = to_address
       /\ pc' \in {"sign", "send_raw_tx"} =>
            /\ Len(unsigned'.outputs) = 1
            /\ unsigned'.outputs[1].script_pubkey = <<"p2pkh", to_address>>
       /\ pc' = "send_raw_tx" =>
            /\ Len(sent'[1].outputs) = 1
            /\ sent'[1].outputs[1].script_pubkey = <<"p2pkh", to_address>>]_vars

C16_Witness ==
    /\ pc = "send_raw_tx"
    /\ coin = 2
    /\ sent[1].outputs[1].script_pubkey = <<"p2pkh", "send_to_address">>

\* C17: a cycle lists only after its height query succeeded, filters after
\* every listing was answered, assembles at least 4 kept outputs, signs an
\* assembled transaction and broadcasts only when every input was signed;
\* each signature covers all the inputs and the single output, and the
\* broadcast transaction carries the signed inputs in place of the unsigned
C17_StepOrder ==
    /\ cycle.lists # <<>> =>
         cycle.height_calls = 1 /\ cycle.outcome # "height_err"
    /\ cycle.kept >= 0 =>
         /\ cycle.lists = [k \in 1..NumKeys |-> k]
         /\ Len(cycle.list_ok) = NumKeys
    /\ cycle.assembled > 0 => cycle.kept >= 4
    /\ cycle.signings > 0 => cycle.assembled = 1
    /\ cycle.broadcasts > 0 =>
         cycle.signings = 1 /\ cycle.outcome # "sign_err"
    /\ pc = "sign" =>
         /\ Len(unsigned.inputs) = cycle.kept
         /\ Len(unsigned.outputs) = 1
         /\ signed_inputs = <<>> /\ sent = <<>>
    /\ pc = "send_raw_tx" =>
         /\ Len(signed_inputs) = Len(unsigned.inputs)
         /\ Len(unsigned.inputs) = cycle.kept
         /\ \A i \in 1..Len(signed_inputs) :
              /\ signed_inputs[i].script_sig.n_inputs = Len(unsigned.inputs)
              /\ signed_inputs[i].script_sig.outputs = unsigned.outputs
              /\ Len(signed_inputs[i].script_sig.outputs) = 1
         /\ sent = << [inputs |-> signed_inputs, outputs |-> unsigned.outputs] >>

\* a transaction of five signed inputs at the broadcast
C17_Witness ==
    /\ pc = "send_raw_tx"
    /\ cycle.kept = 5
    /\ Len(sent[1].inputs) = 5

\* C18: no assembled transaction has two inputs with the same previous output
C18_NoDuplicateInputs ==
    pc \in {"sign", "send_raw_tx"} =>
        \A i, j \in 1..Len(unsigned.inputs) :
            i # j => unsigned.inputs[i].previous_output #
                        unsigned.inputs[j].previous_output

====
